---- MODULE Spec2Model ----
(***************************************************************************)
(* A model of src/stiefel.py: the class `stiefel` (descriptor _n, _p, dim) *)
(* and its operators Phi, A, JA, JA_exact, JC, C, Feas_eval, Init_point    *)
(* and Post_process, over dense matrices with numpy's shape rules.         *)
(*                                                                         *)
(* Numbers are exact rationals <<num, den>> (den > 0, lowest terms), with  *)
(* the float NaN as <<0, 0>>.  A matrix is a record [r, c, e]: its shape   *)
(* and its entries e[<<i, j>>].  A raised exception is a record [err].     *)
(***************************************************************************)
EXTENDS Integers, Sequences, FiniteSets, TLC

\* Largest number of rows or columns of a matrix, and largest _n, _p.
MaxDim == 2

\* Number of states of the global generator behind np.random.randn.
RngPeriod == 2

-----------------------------------------------------------------------------
(* Rational arithmetic with NaN.                                           *)

NaN == <<0, 0>>

Abs(a) == IF a < 0 THEN 0 - a ELSE a

RECURSIVE Gcd(_, _)
Gcd(a, b) == IF b = 0 THEN a ELSE Gcd(b, a % b)

\* The rational a/b (b # 0) in lowest terms with a positive denominator.
Rat(a, b) ==
    LET g == Gcd(Abs(a), Abs(b))
        s == IF b < 0 THEN 0 - 1 ELSE 1
    IN  <<(s * a) \div g, (s * b) \div g>>

IsNaN(x) == x[2] = 0

Zero == <<0, 1>>
One == <<1, 1>>
Half == <<1, 2>>
ThreeHalves == <<3, 2>>

RAdd(x, y) ==
    IF IsNaN(x) \/ IsNaN(y) THEN NaN
    ELSE Rat(x[1] * y[2] + y[1] * x[2], x[2] * y[2])

RNeg(x) == IF IsNaN(x) THEN NaN ELSE <<0 - x[1], x[2]>>

RSub(x, y) == RAdd(x, RNeg(y))

RMul(x, y) ==
    IF IsNaN(x) \/ IsNaN(y) THEN NaN
    ELSE Rat(x[1] * y[1], x[2] * y[2])

\* x >= 0, false for NaN as every float comparison with NaN is.
RNonNeg(x) == ~IsNaN(x) /\ x[1] >= 0

\* x <= y, false when either is NaN.
RLeq(x, y) == ~IsNaN(x) /\ ~IsNaN(y) /\ x[1] * y[2] <= y[1] * x[2]

-----------------------------------------------------------------------------
(* Dense matrices with numpy's shape rules.                                *)

ValueError == [err |-> "ValueError"]

IsErr(v) == "err" \in DOMAIN v

IsMat(v) == "e" \in DOMAIN v

Idx(r, c) == (1 .. r) \X (1 .. c)

\* A function with every value computed, once.
Table(f) == f @@ <<>>

\* F(x), with x computed once.
With(x, F(_)) == CHOOSE r \in {F(v) : v \in {x}} : TRUE

Mat(r, c, f(_, _)) ==
    [r |-> r, c |-> c, e |-> Table([ij \in Idx(r, c) |-> f(ij[1], ij[2])])]

\* M.T
Tr(M) ==
    IF IsErr(M) THEN M
    ELSE LET f(i, j) == M.e[<<j, i>>] IN Mat(M.c, M.r, f)

RECURSIVE SumTo(_, _)
SumTo(k, t) == IF k = 0 THEN Zero ELSE RAdd(SumTo(k - 1, t), t[k])

\* M @ N: the inner dimensions must agree.
MatMul(M, N) ==
    IF IsErr(M) THEN M
    ELSE IF IsErr(N) THEN N
    ELSE IF M.c # N.r THEN ValueError
    ELSE LET f(i, j) == SumTo(M.c, [k \in 1 .. M.c |-> RMul(M.e[<<i, k>>], N.e[<<k, j>>])])
         IN  Mat(M.r, N.c, f)

\* One axis of numpy broadcasting: equal lengths, or one of them is 1.
BcastOk(a, b) == a = b \/ a = 1 \/ b = 1
BcastLen(a, b) == IF a = 1 THEN b ELSE a
BcastIdx(len, i) == IF len = 1 THEN 1 ELSE i

\* The elementwise M (op) N of numpy, broadcasting axes of length 1.
Elementwise(M, N, op(_, _)) ==
    IF IsErr(M) THEN M
    ELSE IF IsErr(N) THEN N
    ELSE IF ~(BcastOk(M.r, N.r) /\ BcastOk(M.c, N.c)) THEN ValueError
    ELSE LET f(i, j) == op(M.e[<<BcastIdx(M.r, i), BcastIdx(M.c, j)>>],
                           N.e[<<BcastIdx(N.r, i), BcastIdx(N.c, j)>>])
         IN  Mat(BcastLen(M.r, N.r), BcastLen(M.c, N.c), f)

MatAdd(M, N) == Elementwise(M, N, RAdd)
MatSub(M, N) == Elementwise(M, N, RSub)

\* q * M and M / 2 (as Scale(Half, M)).
Scale(q, M) ==
    IF IsErr(M) THEN M
    ELSE LET f(i, j) == RMul(q, M.e[<<i, j>>]) IN Mat(M.r, M.c, f)

\* np.eye(k): a negative k is refused.
Eye(k) ==
    IF k < 0 THEN ValueError
    ELSE LET f(i, j) == IF i = j THEN One ELSE Zero IN Mat(k, k, f)

RECURSIVE SumSq(_, _)
SumSq(M, todo) ==
    IF todo = {} THEN Zero
    ELSE LET ij == CHOOSE x \in todo : TRUE
         IN  RAdd(RMul(M.e[ij], M.e[ij]), SumSq(M, todo \ {ij}))

\* np.linalg.norm(M, 'fro'): the number sqrt(q), kept as [sqrt |-> q].
FroNorm(M) ==
    IF IsErr(M) THEN M
    ELSE [sqrt |-> SumSq(M, DOMAIN M.e)]

-----------------------------------------------------------------------------
(* Matrices with orthonormal columns, and the factorizations of LAPACK.    *)

\* The entries orthonormal columns are built from: 0, +-1, +-3/5, +-4/5.
OrthoEntries == {<<0, 1>>, <<1, 1>>, <<0 - 1, 1>>, <<3, 5>>, <<0 - 3, 5>>, <<4, 5>>, <<0 - 4, 5>>}

Dot(u, v, m) == SumTo(m, [k \in 1 .. m |-> RMul(u[k], v[k])])

\* The first entry of v that is not 0 is positive.
Signed(v, m) == \A i \in 1 .. m : (\A h \in 1 .. i - 1 : v[h] = Zero) => v[i][1] >= 0

\* UnitVectors[m]: the vectors of length m over OrthoEntries of norm 1, one
\* of each pair u, -u.
UnitVectors ==
    Table([m \in 0 .. MaxDim |->
        {u \in [1 .. m -> OrthoEntries] : Dot(u, u, m) = One /\ Signed(u, m)}])

Orthogonal(u, qs, m) == \A i \in 1 .. Len(qs) : Dot(u, qs[i], m) = Zero

\* The sequences of k orthogonal vectors of UnitVectors[m].
RECURSIVE OrthoSeqs(_, _)
OrthoSeqs(m, k) ==
    IF k = 0 THEN {<<>>}
    ELSE {Append(qu[1], qu[2]) :
            qu \in {x \in OrthoSeqs(m, k - 1) \X UnitVectors[m] : Orthogonal(x[2], x[1], m)}}

\* Feasible[<<m, k>>]: the m x k matrices Q with Q.T @ Q = I_k whose columns
\* are in UnitVectors[m].
Feasible ==
    Table([mk \in (0 .. MaxDim) \X (0 .. MaxDim) |->
        {LET f(i, j) == q[j][i] IN Mat(mk[1], mk[2], f) : q \in OrthoSeqs(mk[1], mk[2])}])

Min(a, b) == IF a < b THEN a ELSE b

Num(a) == <<a, 1>>

\* The identity, and a rotation by the angle of the 3-4-5 triangle in the
\* plane of the first two axes: their first k columns.
Rotation(m, k, turn) ==
    LET f(i, j) == IF ~turn \/ m < 2 \/ i > 2 \/ j > 2
                   THEN (IF i = j THEN One ELSE Zero)
                   ELSE IF i = j THEN <<3, 5>>
                   ELSE IF i < j THEN <<0 - 4, 5>> ELSE <<4, 5>>
    IN  Mat(m, k, f)

\* Column j of X and row i of X, as vectors.
Col(X, j) == Table([i \in 1 .. X.r |-> X.e[<<i, j>>]])
Row(X, i) == Table([j \in 1 .. X.c |-> X.e[<<i, j>>]])

VScale(q, v) == Table([i \in DOMAIN v |-> RMul(q, v[i])])
VSub(u, v) == Table([i \in DOMAIN u |-> RSub(u[i], v[i])])

\* v less its components along the orthonormal vectors qs[1 .. n].
RECURSIVE Residual(_, _, _, _)
Residual(v, qs, n, m) ==
    IF n = 0 THEN v
    ELSE LET rest(w) == Residual(w, qs, n - 1, m)
         IN  With(VSub(v, VScale(Dot(qs[n], v, m), qs[n])), rest)

\* The integer square root of a >= 0.
Sqrt(a) == CHOOSE k \in 0 .. a : (k + 1) * (k + 1) > a

IsSquare(a) == LET k == Sqrt(a) IN k * k = a

\* The norm of v is rational and not 0: |v|^2 = a/b with a and b squares.
HasNorm(v, m) == LET q == Dot(v, v, m) IN q[1] > 0 /\ IsSquare(q[1]) /\ IsSquare(q[2])

\* v / |v|
Normalized(v, m) == LET q == Dot(v, v, m) IN VScale(Rat(Sqrt(q[2]), Sqrt(q[1])), v)

IsZeroVec(v) == \A i \in DOMAIN v : v[i] = Zero

NoQr == [ok |-> FALSE]

\* The columns q[1 .. k] of a factor Q of X = Q @ R with a non-negative
\* diagonal of R (Gram-Schmidt), as [ok, qs]: q[j] is what column j of X adds
\* to the columns before it, normalized; when that is nothing, q[j] is a unit
\* vector orthogonal to them with which the later columns can be had.
RECURSIVE QrCols(_, _, _)
QrCols(X, k, qs) ==
    IF Len(qs) = k THEN [ok |-> TRUE, qs |-> qs]
    ELSE LET m == X.r
             more(q) == QrCols(X, k, Append(qs, q))
             fits(u) == Orthogonal(u, qs, m) /\ more(u).ok
             step(v) ==
                 IF IsZeroVec(v)
                 THEN IF \E u \in UnitVectors[m] : fits(u)
                      THEN With(CHOOSE u \in UnitVectors[m] : fits(u), more)
                      ELSE NoQr
                 ELSE IF HasNorm(v, m) THEN With(Normalized(v, m), more)
                 ELSE NoQr
         IN  With(Residual(Col(X, Len(qs) + 1), qs, Len(qs), m), step)

\* np.linalg.qr(X), mode 'reduced': X = Q @ R with Q.T @ Q = I and R upper
\* triangular; the factor Q, a fixed function of X (LAPACK is deterministic).
QrQ(X) ==
    LET k == Min(X.r, X.c)
        cols(qs) == LET f(i, j) == qs[j][i] IN Mat(X.r, k, f)
    IN  With(QrCols(X, k, <<>>).qs, cols)

\* X @ v for a vector v of length X.c.
MatVec(X, v) == Table([i \in 1 .. X.r |-> Dot(Row(X, i), v, X.c)])

\* The eigenvectors u of the symmetric matrix S among the unit vectors
\* orthogonal to us, each with its eigenvalue: <<u, S @ u . u>>.
Eigen(S, us) ==
    LET m == S.r
        pairs == {<<u, MatVec(S, u)>> : u \in {u \in UnitVectors[m] : Orthogonal(u, us, m)}}
        eig == {<<x[1], x[2], Dot(x[1], x[2], m)>> : x \in pairs}
    IN  {<<x[1], x[3]>> : x \in {x \in eig : x[2] = VScale(x[3], x[1])}}

\* The left singular vectors u[1 .. k] of X, eigenvectors of S = X @ X.T, by
\* descending singular value.
RECURSIVE SvdLeft(_, _, _)
SvdLeft(S, k, us) ==
    IF Len(us) = k THEN us
    ELSE LET more(u) == SvdLeft(S, k, Append(us, u))
             top(eig) == (CHOOSE x \in eig : \A z \in eig : RLeq(z[2], x[2]))[1]
             pick(eig) == With(top(eig), more)
         IN  With(Eigen(S, us), pick)

\* The right singular vectors: X.T @ u[i] = s[i] * v[i] with s[i] > 0, and
\* any unit vector orthogonal to the others where s[i] = 0.
RECURSIVE SvdRight(_, _, _)
SvdRight(Xt, us, vs) ==
    IF Len(vs) = Len(us) THEN vs
    ELSE LET more(v) == SvdRight(Xt, us, Append(vs, v))
             right(w) ==
                 IF IsZeroVec(w)
                 THEN CHOOSE v1 \in UnitVectors[Xt.r] : Orthogonal(v1, vs, Xt.r)
                 ELSE Normalized(w, Xt.r)
             step(w) == With(right(w), more)
         IN  With(MatVec(Xt, us[Len(vs) + 1]), step)

\* svd(X, full_matrices = False): X = U @ diag(S) @ Vt, U.T @ U = I,
\* Vt @ Vt.T = I, S descending and non-negative; returned as [U, Vt].
Svd(X) ==
    LET k == Min(X.r, X.c)
        left(Xt) == LET gram(S) == SvdLeft(S, k, <<>>) IN With(MatMul(X, Xt), gram)
        both(Xt) ==
            LET right(us) == [us |-> us, vs |-> SvdRight(Xt, us, <<>>)]
                mats(uv) == LET fu(i, j) == uv.us[j][i]
                                fv(i, j) == uv.vs[i][j]
                            IN  [U |-> Mat(X.r, k, fu), Vt |-> Mat(k, X.c, fv)]
                make(us) == With(right(us), mats)
            IN  With(left(Xt), make)
    IN  With(Tr(X), both)

-----------------------------------------------------------------------------
(* class stiefel                                                           *)

Phi(M) == Scale(Half, MatAdd(M, Tr(M)))

\* A with X @ XX for X @ (XX / 2).
A_whole(X) ==
    LET XX == MatMul(Tr(X), X)
    IN  MatSub(Scale(ThreeHalves, X), MatMul(X, XX))

A(X) ==
    LET XX == MatMul(Tr(X), X)
    IN  MatSub(Scale(ThreeHalves, X), MatMul(X, Scale(Half, XX)))

\* JA with + for -.
JA_plus(X, G) == MatAdd(G, MatMul(X, Phi(MatMul(Tr(X), G))))

JA(X, G) == MatSub(G, MatMul(X, Phi(MatMul(Tr(X), G))))

\* JA_exact with G for 1.5 * G - 0.5 * G @ XX.
JA_exact_short(X, G) == MatSub(G, MatMul(X, Phi(MatMul(Tr(X), G))))

JA_exact(X, G) ==
    LET XX == MatMul(Tr(X), X)
    IN  MatSub(MatSub(Scale(ThreeHalves, G), MatMul(Scale(Half, G), XX)),
               MatMul(X, Phi(MatMul(Tr(X), G))))

JC(X, Lambda) == MatMul(X, Phi(Lambda))

\* C without the identity.
C_gram(self, X) == MatMul(Tr(X), X)

C(self, X) == MatSub(MatMul(Tr(X), X), Eye(self._p))

Feas_eval(self, X) == FroNorm(C(self, X))

\* Post_process with the singular values kept: UX @ diag(SX) @ VX, which is X.
Post_process_scaled(X) == X

Post_process(X) ==
    LET usv == Svd(X) IN MatMul(usv.U, usv.Vt)

\* 1e-6 is 1 / TolInv.
TolInv == 1000000

\* sqrt(q) > 1e-6 for the norm v = [sqrt |-> q], q = a/b >= 0: a > 0 and
\* TolInv^2 > b/a, written so that no product leaves the integers of TLC;
\* false for NaN.
GtTol(v) ==
    LET a == v.sqrt[1]
        b == v.sqrt[2]
    IN  ~IsNaN(v.sqrt) /\ a > 0 /\ TolInv > ((b \div a) \div TolInv)

None == [none |-> TRUE]

\* np.random.randn(n, p) in generator state g: a refused shape, or [X, rng]
\* with the matrix drawn and the generator state after the draw.  A draw is
\* a rotation of an upper-trapezoidal matrix with a positive diagonal, so it
\* has full rank min(n, p).
Randn(g, n, p) ==
    IF n < 0 \/ p < 0 THEN ValueError
    ELSE LET k == Min(n, p)
             up(i, j) == IF i > j THEN Zero ELSE Num(5 * (1 + ((g + i + j) % 3)))
         IN  [X |-> MatMul(Rotation(n, k, g % 2 = 1), Mat(k, p, up)),
              rng |-> IF n * p = 0 THEN g ELSE (g + 1) % RngPeriod]

\* Xinit as the body of Init_point has it after line 43, in generator state
\* g: [X, rng], or the exception of np.random.randn.
Drawn(self, Xinit, g) ==
    IF Xinit = None THEN Randn(g, self._n, self._p) ELSE [X |-> Xinit, rng |-> g]

\* Lines 45-47 for d = [X, rng]: [out, alias, rng], where out is the matrix
\* returned or the exception raised, alias says that out is the object the
\* caller passed, and rng is the generator state afterwards.
Orthonormalized(self, d, given) ==
    LET nrm == FroNorm(MatSub(MatMul(Tr(d.X), d.X), Eye(self._p)))
    IN  IF IsErr(nrm) THEN [out |-> nrm, alias |-> FALSE, rng |-> d.rng]
        ELSE IF GtTol(nrm) THEN [out |-> QrQ(d.X), alias |-> FALSE, rng |-> d.rng]
        ELSE [out |-> d.X, alias |-> given, rng |-> d.rng]

\* Init_point that draws whether or not it is given Xinit.
Init_point_redrawn(self, Xinit, g) ==
    LET rest(d) == IF IsErr(d) THEN [out |-> d, alias |-> FALSE, rng |-> g]
                   ELSE Orthonormalized(self, d, FALSE)
    IN  With(Randn(g, self._n, self._p), rest)

\* Init_point(self, Xinit) in generator state g.
Init_point(self, Xinit, g) ==
    LET rest(d) == IF IsErr(d) THEN [out |-> d, alias |-> FALSE, rng |-> g]
                   ELSE Orthonormalized(self, d, Xinit # None)
    IN  With(Drawn(self, Xinit, g), rest)

\* stiefel(n, p)
New(n, p) == [_n |-> n, _p |-> p, dim |-> n * p]

-----------------------------------------------------------------------------
(* The arguments callers pass.                                             *)

Shapes == (1 .. MaxDim) \X (1 .. MaxDim)

Ones(r, c) == LET f(i, j) == One IN Mat(r, c, f)

\* 2 on the diagonal, 0 elsewhere.
TwoEye(r, c) == LET f(i, j) == IF i = j THEN Num(2) ELSE Zero IN Mat(r, c, f)

\* Integer matrices with at most one entry, of -1 or 2, that is not 0.
OneEntry(rc) ==
    {LET f(i, j) == IF <<i, j>> = a THEN Num(v) ELSE Zero IN Mat(rc[1], rc[2], f) :
        a \in Idx(rc[1], rc[2]), v \in {0 - 1, 0, 2}}

\* A dense integer matrix.
Ramp(r, c) == LET f(i, j) == Num((i * i) + (2 * j) - 4) IN Mat(r, c, f)

\* Directions G and multipliers Lambda.
Sparse ==
    Table([rc \in Shapes |-> OneEntry(rc) \cup {Ones(rc[1], rc[2]), Ramp(rc[1], rc[2])}])

\* Points: the feasible ones, and dense integer matrices.
Points ==
    Table([rc \in Shapes |->
        Feasible[rc]
        \cup {Ones(rc[1], rc[2]), Ramp(rc[1], rc[2]), TwoEye(rc[1], rc[2])}])

\* Upper-trapezoidal factors: full rank, rank-deficient and zero.
Uppers ==
    Table([kc \in Shapes |->
        {LET f(i, j) == IF i = j THEN Num(a) ELSE IF i < j THEN Num(b) ELSE Zero
         IN  Mat(kc[1], kc[2], f) : a \in {0, 1, 2}, b \in {0, 1}}
        \cup {LET f(i, j) == IF i = 1 THEN Num(5) ELSE Zero IN Mat(kc[1], kc[2], f)}])

\* Matrices Q @ R, Q with orthonormal columns and R upper trapezoidal.
QrInputs ==
    Table([rc \in Shapes |->
        LET k == Min(rc[1], rc[2])
        IN  {MatMul(Q, R) : Q \in Feasible[<<rc[1], k>>], R \in Uppers[<<k, rc[2]>>]}])

NaNs(r, c) == LET f(i, j) == IF i = 1 /\ j = 1 THEN NaN ELSE IF i = j THEN One ELSE Zero
              IN  Mat(r, c, f)

\* What Init_point is given: feasible points, products Q @ R, a NaN.
InitInputs ==
    Table([rc \in Shapes |-> Feasible[rc] \cup QrInputs[rc] \cup {NaNs(rc[1], rc[2])}])

\* diag(s) for s = <<a, b, b, ..>>, descending and non-negative.
Diag(k, a, b) ==
    LET f(i, j) == IF i # j THEN Zero ELSE IF i = 1 THEN Num(a) ELSE Num(b)
    IN  Mat(k, k, f)

\* Matrices U @ diag(s) @ V.T, U and V with orthonormal columns: of full rank
\* (s = 1,1,.. and s = 2,1,..) and not (s = 1,0,..).
SvdInputs ==
    Table([rc \in Shapes |->
        LET k == Min(rc[1], rc[2])
        IN  {MatMul(MatMul(U, Diag(k, f[1], f[2])), Tr(Rotation(rc[2], k, f[3]))) :
                U \in Feasible[<<rc[1], k>>],
                f \in {<<1, 1, FALSE>>, <<2, 1, FALSE>>, <<2, 1, TRUE>>, <<1, 0, TRUE>>}}])

\* The families of arguments: every sample, with a few of the shapes that do
\* not fit; or a few of the fitting shape only.
Wide ==
    [pts |-> Points, dirs |-> Sparse, init |-> InitInputs, svd |-> SvdInputs,
     few |-> Table([rc \in Shapes |-> {Ramp(rc[1], rc[2])}]),
     fewf |-> Table([rc \in Shapes |-> {TwoEye(rc[1], rc[2])}])]

Narrow ==
    LET two == Table([rc \in Shapes |-> {TwoEye(rc[1], rc[2])}])
        one == Table([rc \in Shapes |->
                    IF rc[1] >= rc[2] THEN {Rotation(rc[1], rc[2], TRUE)} ELSE two[rc]])
        both == Table([rc \in Shapes |-> one[rc] \cup two[rc]])
        none == Table([rc \in Shapes |-> {}])
    IN  [pts |-> one, dirs |-> two, init |-> both, svd |-> both,
         few |-> none, fewf |-> none]

\* Arguments from `full` where the shape is `shape`, from `few` elsewhere.
ArgsOf(shape, full, few) ==
    UNION {IF rc = shape THEN full[rc] ELSE few[rc] : rc \in Shapes}

-----------------------------------------------------------------------------
(* The program: one descriptor, the objects of the last call, the global   *)
(* generator, and a caller that may write into the matrix it was returned. *)

VARIABLES
    self,   \* the descriptor [_n, _p, dim], or None before stiefel(n, p)
    heap,   \* objects: 1 the first argument, 2 the second, 3 what the call made
    call,   \* the last call: [op, X, G, ret], X and G as they were passed
    rng,    \* state of the global generator of np.random
    pc,     \* "new", "idle", "returned", "written"
    mem     \* a remembered earlier call [sig, val], or None

vars == <<self, heap, call, rng, pc, mem>>

NoHeap == [i \in 1 .. 3 |-> None]

Init ==
    /\ self = None
    /\ heap = NoHeap
    /\ call = None
    /\ rng \in 0 .. RngPeriod - 1
    /\ pc = "new"
    /\ mem = None

\* stiefel(n, p)
Construct(dims) ==
    \E n \in dims, p \in dims :
        /\ pc \in {"new", "idle"}
        /\ self' = New(n, p)
        /\ heap' = NoHeap
        /\ call' = None
        /\ pc' = "idle"
        /\ UNCHANGED <<rng, mem>>

\* The state after self.op(X, G) gave `out` (a matrix, a number or an
\* exception); a matrix is a new object 3 unless it is the argument itself.
Returns(op, X, G, out, alias, g) ==
    \E res \in {<<out, alias, g>>} :
        /\ heap' = [i \in 1 .. 3 |->
                        IF i = 1 THEN X
                        ELSE IF i = 2 THEN G
                        ELSE IF IsMat(res[1]) /\ ~res[2] THEN res[1] ELSE None]
        /\ call' = [op |-> op, X |-> X, G |-> G,
                    ret |-> IF IsMat(res[1]) THEN [ref |-> IF res[2] THEN 1 ELSE 3]
                            ELSE res[1]]
        /\ rng' = res[3]
        /\ pc' = "returned"
        /\ UNCHANGED <<self, mem>>

NP == <<self._n, self._p>>
PP == <<self._p, self._p>>

\* The second arguments passed with X: of the fitting shape when X fits.
Seconds(in, X, shape) ==
    IF <<X.r, X.c>> = NP THEN ArgsOf(shape, in.dirs, in.few)
    ELSE ArgsOf(<<0, 0>>, in.dirs, in.few)

CallPhi(in) ==
    /\ pc = "idle"
    /\ \E M \in ArgsOf(PP, in.dirs, in.few) : Returns("Phi", M, None, Phi(M), FALSE, rng)

CallA(in) ==
    /\ pc = "idle"
    /\ \E X \in ArgsOf(NP, in.pts, in.few) : Returns("A", X, None, A(X), FALSE, rng)

CallJA(in) ==
    /\ pc = "idle"
    /\ \E X \in ArgsOf(NP, in.pts, in.few) : \E G \in Seconds(in, X, NP) :
           Returns("JA", X, G, JA(X, G), FALSE, rng)

CallJA_exact(in) ==
    /\ pc = "idle"
    /\ \E X \in ArgsOf(NP, in.pts, in.few) : \E G \in Seconds(in, X, NP) :
           Returns("JA_exact", X, G, JA_exact(X, G), FALSE, rng)

CallJC(in) ==
    /\ pc = "idle"
    /\ \E X \in ArgsOf(NP, in.pts, in.few) : \E Lambda \in Seconds(in, X, PP) :
           Returns("JC", X, Lambda, JC(X, Lambda), FALSE, rng)

CallC(in) ==
    /\ pc = "idle"
    /\ \E X \in ArgsOf(NP, in.pts, in.few) : Returns("C", X, None, C(self, X), FALSE, rng)

CallFeas_eval(in) ==
    /\ pc = "idle"
    /\ \E X \in ArgsOf(NP, in.pts, in.few) :
           Returns("Feas_eval", X, None, Feas_eval(self, X), FALSE, rng)

CallInit_point(in) ==
    /\ pc = "idle"
    /\ \E Xinit \in ArgsOf(NP, in.init, in.fewf) \cup {None} :
           \E res \in {Init_point(self, Xinit, rng)} :
               Returns("Init_point", Xinit, None, res.out, res.alias, res.rng)

CallPost_process(in) ==
    /\ pc = "idle"
    /\ \E X \in ArgsOf(NP, in.svd, in.fewf) :
           Returns("Post_process", X, None, Post_process(X), FALSE, rng)

\* The caller changes, in place, an entry of the matrix it was returned.
CallerWrite ==
    /\ pc = "returned"
    /\ "ref" \in DOMAIN call.ret
    /\ <<1, 1>> \in DOMAIN heap[call.ret.ref].e
    /\ heap' = [heap EXCEPT ![call.ret.ref].e[<<1, 1>>] = RAdd(@, One)]
    /\ pc' = "written"
    /\ UNCHANGED <<self, call, rng, mem>>

\* The caller is done with the call and drops its objects.
Finish ==
    /\ pc \in {"returned", "written"}
    /\ heap' = NoHeap
    /\ call' = None
    /\ pc' = "idle"
    /\ UNCHANGED <<self, rng, mem>>

\* What a call returned: the matrix behind a reference, else the value.
Value(ret) == IF "ref" \in DOMAIN ret THEN heap[ret.ref] ELSE ret

\* Keep the last call, to compare later calls with it.
Remember ==
    /\ pc = "returned"
    /\ mem' = [sig |-> <<call.op, self._n, self._p, call.X, call.G>>, val |-> Value(call.ret)]
    /\ UNCHANGED <<self, heap, call, rng, pc>>

\* stiefel(n, p) with any integers from -1, and any method called on it with
\* any of the sampled arguments.
Next ==
    \/ Construct((0 - 1) .. MaxDim)
    \/ CallPhi(Wide)
    \/ CallA(Wide)
    \/ CallJA(Wide)
    \/ CallJA_exact(Wide)
    \/ CallJC(Wide)
    \/ CallC(Wide)
    \/ CallFeas_eval(Wide)
    \/ CallInit_point(Wide)
    \/ CallPost_process(Wide)
    \/ CallerWrite
    \/ Finish

Spec == Init /\ [][Next]_vars

\* Calls with arguments of the fitting shapes, one of them remembered.
NextMem ==
    \/ Construct(1 .. MaxDim)
    \/ CallPhi(Narrow)
    \/ CallA(Narrow)
    \/ CallJA(Narrow)
    \/ CallJA_exact(Narrow)
    \/ CallJC(Narrow)
    \/ CallC(Narrow)
    \/ CallFeas_eval(Narrow)
    \/ CallInit_point(Narrow)
    \/ CallPost_process(Narrow)
    \/ Remember
    \/ Finish

SpecMem == Init /\ [][NextMem]_vars

-----------------------------------------------------------------------------
(* What is claimed of the program.                                         *)

Returned(op) == pc = "returned" /\ call.op = op

\* What the last call returned.
Result == Value(call.ret)

\* M is a matrix of the shape <<rows, columns>>.
Fits(M, shape) == IsMat(M) /\ <<M.r, M.c>> = shape

\* The descriptor is one the specification allows: n >= p > 0.
Valid == self._n >= self._p /\ self._p > 0

\* X.T @ X = I
IsFeasible(X) == MatMul(Tr(X), X) = Eye(X.c)

IsZero(M) == IsMat(M) /\ \A ij \in DOMAIN M.e : M.e[ij] = Zero

\* sqrt(q) < 1e-6 for the norm v = [sqrt |-> q], q = a/b >= 0: a * 1e12 < b.
LtTol(v) ==
    LET a == v.sqrt[1]
        b == v.sqrt[2]
    IN  ~IsNaN(v.sqrt) /\ (a = 0 \/ (((b - 1) \div a) \div TolInv) >= TolInv)

\* The determinant of the square matrix M, by its first row.
RECURSIVE Det(_)
Det(M) ==
    IF M.r = 0 THEN One
    ELSE LET minor(j) == LET f(i, k) == M.e[<<i + 1, IF k < j THEN k ELSE k + 1>>]
                         IN  Mat(M.r - 1, M.r - 1, f)
             term(j) == LET cof(N) == RMul(M.e[<<1, j>>], Det(N))
                        IN  IF j % 2 = 1 THEN With(minor(j), cof)
                            ELSE RNeg(With(minor(j), cof))
         IN  SumTo(M.r, [j \in 1 .. M.r |-> term(j)])

\* X has full column rank: X.T @ X is not singular.
FullColumnRank(X) == Det(MatMul(Tr(X), X)) # Zero

\* The first column of the identity, scaled by a.
Axis(n, a) == LET f(i, j) == IF i = 1 THEN Num(a) ELSE Zero IN Mat(n, 1, f)

\* The call, as two runs would issue it alike.
Sig == <<call.op, self._n, self._p, call.X, call.G>>

\* C1: on a descriptor with n >= p > 0, every Init_point, without Xinit or
\* with an n x p Xinit, returns a matrix Y with norm(Y.T @ Y - I, 'fro') < 1e-6.
C1_InitPointFeasible ==
    (Returned("Init_point") /\ Valid /\ (call.X = None \/ Fits(call.X, NP)))
        => (IsMat(Result) /\ LtTol(Feas_eval(self, Result)))

\* C2: a descriptor exists only with n >= p > 0, and then dim = n * p.
C2_InvalidDimension ==
    self # None => (Valid /\ self.dim = self._n * self._p)

\* An argument of the last call has not the shape the descriptor or the
\* other argument implies: n x p for X, G and Xinit, p x p for Lambda, square
\* for Phi.
Misfit ==
    IF call.op = "Phi" THEN call.X.r # call.X.c
    ELSE IF call.op = "Init_point" THEN call.X # None /\ ~Fits(call.X, NP)
    ELSE IF call.op \in {"JA", "JA_exact"} THEN ~Fits(call.X, NP) \/ ~Fits(call.G, NP)
    ELSE IF call.op = "JC" THEN ~Fits(call.X, NP) \/ ~Fits(call.G, PP)
    ELSE ~Fits(call.X, NP)

\* C3: on a descriptor with n >= p > 0, a call with an argument of a shape
\* that does not fit ends in an error and returns no matrix.
C3_ShapeMismatch ==
    (pc = "returned" /\ Valid /\ Misfit) => IsErr(call.ret)

\* C4: on a descriptor with n >= p > 0 and with arguments of the shapes
\* that fit, the matrix a call returns is a new object, never an argument,
\* and the arguments stay as they were passed, also after the caller has
\* written into the result.
C4_NoAlias ==
    (pc \in {"returned", "written"} /\ Valid /\ ~Misfit) =>
        /\ "ref" \in DOMAIN call.ret => call.ret.ref = 3
        /\ heap[1] = call.X
        /\ heap[2] = call.G

\* C5, as claimed: no call changes the generator, and a call returns what
\* the remembered call of the same operator with equal arguments and equal
\* (n, p) returned, Init_point without Xinit included.
C5_Pure ==
    [][(pc = "idle" /\ pc' = "returned") =>
          /\ rng' = rng
          /\ (mem # None /\ mem.sig = Sig') => mem.val = Result'
      ]_vars

\* C5, amended: every call but Init_point without Xinit leaves the generator
\* as it was and returns what the remembered call of the same operator with
\* equal arguments and equal (n, p) returned.
C5_PureButDraw ==
    [][(pc = "idle" /\ pc' = "returned"
            /\ ~(call'.op = "Init_point" /\ call'.X = None)) =>
          /\ rng' = rng
          /\ (mem # None /\ mem.sig = Sig') => mem.val = Result'
      ]_vars

\* C5 happens: Init_point is called with an Xinit as the remembered call
\* was, and returns the matrix that call returned.
C5_Witness ==
    /\ Returned("Init_point")
    /\ call.X # None
    /\ mem # None
    /\ mem.sig = Sig
    /\ mem.val = Result

\* C6: for a feasible n x p point X, A(X) = X, C(X) = 0 and Feas_eval(X) = 0.
C6_FeasibleFixedPoint ==
    (pc = "returned" /\ Fits(call.X, NP) /\ IsFeasible(call.X)) =>
        /\ call.op = "A" => Result = call.X
        /\ call.op = "C" => (IsZero(Result) /\ Fits(Result, PP))
        /\ call.op = "Feas_eval" => Result = [sqrt |-> Zero]

\* C6 happens: A returned a feasible point with more rows than columns and
\* entries that are not integers.
C6_Witness ==
    /\ Returned("A")
    /\ Fits(call.X, NP)
    /\ IsFeasible(call.X)
    /\ self._n > self._p
    /\ \E ij \in DOMAIN call.X.e : call.X.e[ij][2] = 5
    /\ Result = call.X

\* C7: for a feasible n x p point X and an n x p direction G, T = JA(X, G)
\* is tangent at X: Phi(X.T @ T) is the p x p zero matrix.
C7_Tangent ==
    (Returned("JA") /\ Fits(call.X, NP) /\ Fits(call.G, NP) /\ IsFeasible(call.X)) =>
        LET S == Phi(MatMul(Tr(call.X), Result))
        IN  IsZero(S) /\ Fits(S, PP)

\* C7 happens: JA took a part off a direction at a feasible point and left
\* a part.
C7_Witness ==
    /\ Returned("JA")
    /\ Fits(call.X, NP)
    /\ Fits(call.G, NP)
    /\ IsFeasible(call.X)
    /\ Result # call.G
    /\ ~IsZero(Result)

\* C8: for n x p matrices X and G, feasible or not,
\* A(X + G) - A(X - G) = 2 * JA_exact(X, G) - G @ (G.T @ G).
C8_ExactDifferential ==
    (Returned("JA_exact") /\ Fits(call.X, NP) /\ Fits(call.G, NP)) =>
        MatSub(A(MatAdd(call.X, call.G)), A(MatSub(call.X, call.G)))
            = MatSub(Scale(Num(2), Result),
                     MatMul(call.G, MatMul(Tr(call.G), call.G)))

\* C8 happens: JA_exact at a point that is not feasible, with a direction
\* whose cube is not 0, returned something other than JA does.
C8_Witness ==
    /\ Returned("JA_exact")
    /\ Fits(call.X, NP)
    /\ Fits(call.G, NP)
    /\ ~IsFeasible(call.X)
    /\ ~IsZero(MatMul(call.G, MatMul(Tr(call.G), call.G)))
    /\ Result # JA(call.X, call.G)

\* C9: for an n x p matrix X of full column rank, Y = Post_process(X) has
\* Y.T @ Y = I; a feasible X is returned as it is; and the first column of
\* the identity scaled by 2 gives the first column of the identity.
C9_PostProcess ==
    (Returned("Post_process") /\ Fits(call.X, NP)) =>
        /\ FullColumnRank(call.X) => (Fits(Result, NP) /\ IsFeasible(Result))
        /\ IsFeasible(call.X) => Result = call.X
        /\ call.X = Axis(self._n, 2) => Result = Axis(self._n, 1)

\* C9 happens: Post_process made a matrix of full column rank, with two
\* columns or more, feasible.
C9_Witness ==
    /\ Returned("Post_process")
    /\ Fits(call.X, NP)
    /\ self._p > 1
    /\ FullColumnRank(call.X)
    /\ ~IsFeasible(call.X)
    /\ IsFeasible(Result)

\* E - J = -0.5 * G @ C(X), and E = J when X is feasible.
Differ(E, J) ==
    /\ MatSub(E, J) = Scale(<<0 - 1, 2>>, MatMul(call.G, C(self, call.X)))
    /\ IsFeasible(call.X) => E = J

\* C10: for n x p matrices X and G, JA_exact(X, G) - JA(X, G) is
\* -0.5 * G @ C(X), and the two are equal when X is feasible.
C10_ExactVsApprox ==
    (pc = "returned" /\ Fits(call.X, NP) /\ Fits(call.G, NP)) =>
        /\ call.op = "JA_exact" => Differ(Result, JA(call.X, call.G))
        /\ call.op = "JA" => Differ(JA_exact(call.X, call.G), Result)

\* C10 happens: JA was called at a point that is not feasible and
\* JA_exact gives something else there.
C10_Witness ==
    /\ Returned("JA")
    /\ Fits(call.X, NP)
    /\ Fits(call.G, NP)
    /\ ~IsFeasible(call.X)
    /\ JA_exact(call.X, call.G) # Result

====
